---- MODULE Spec2Model ----
(***************************************************************************)
(* Event-file reconstruction of Gagnepain2017JoN.                          *)
(*                                                                         *)
(* Two scripts rebuild the BIDS events files from the source spreadsheets: *)
(*   "rating"        : src/code/preprocessing/step08_fill_event_files.py   *)
(*   "response_time" : src/code/step08_fill_event_files.py                 *)
(* Both run one loop over the BIDS events files; one iteration of that     *)
(* loop (source lookup, read, run filter, conditions loop, sort, write) is *)
(* one action of this model.                                                *)
(*                                                                         *)
(* Representation.                                                         *)
(*  - A string cell is the sequence of its characters, so that             *)
(*    str.contains is a real substring search; the missing string (NaN)    *)
(*    is the one-element sequence NaN, which is no character.              *)
(*  - A numeric cell is <<v>>, or <<>> when missing (NaN).  v counts       *)
(*    thousandths: the number x is held as x * 1000 (Fx), so 12000 / 1000  *)
(*    = 12.0 and the reaction time 1.2 are both exact.                     *)
(*  - A label cell on which no search is done (the output trial_type) is  *)
(*    the one-element sequence of its text.                                *)
(*  - A table (DataFrame) is the sequence of its rows.                     *)
(***************************************************************************)
EXTENDS Integers, Sequences, FiniteSets, TLC

VARIABLES
    variant,        \* which of the two scripts is run
    sortKind,       \* how this build's quicksort orders rows of equal onset
    sourceDir,      \* the files of source_events_path, in glob order
    dest,           \* content of every BIDS events file
    unwritable,     \* the events files whose to_csv raises
    idx,            \* position of the for loop in events_files
    log,            \* what the current run of the script has printed
    written,         \* events files holding a table this script wrote
    inflight,       \* new_events of the units a driver runs side by side, before to_csv
    seqinfo,        \* the series handed to infotodict
    info            \* what infotodict returned

vars == <<variant, sortKind, sourceDir, dest, unwritable, idx, log, written,
         inflight, seqinfo, info>>

----------------------------------------------------------------------------
(* Bounds *)

MaxTrials == 2          \* rows of a source spreadsheet

----------------------------------------------------------------------------
(* Cells *)

NaN == <<"nan">>
NA == <<>>

Fx(x) == x * 1000

Num(x) == <<Fx(x)>>

Lbl(text) == <<text>>

ENEG == <<"E", "N", "E", "G">>
ENEU == <<"E", "N", "E", "U">>
FN == <<"F", "N">>
tt_r == <<"r">>
tt_s == <<"s">>
tt_sF == <<"s", "F">>
tt_rF == <<"r", "F">>
tt_sr == <<"s", "r">>

----------------------------------------------------------------------------
(* pandas operations used by the scripts *)

\* Series.str.contains(pat, na=False) for a pattern without regex operators
\* fault: the pattern must equal the whole cell
str_contains_eq(cell, pat) == cell # NaN /\ cell = pat

str_contains(cell, pat) ==
    /\ cell # NaN
    /\ \E i \in 1..(Len(cell) - Len(pat) + 1) : SubSeq(cell, i, i + Len(pat) - 1) = pat

\* Series.isin(values)
\* fault: only the first value of the list is accepted
isin_first(cell, values) == Len(values) > 0 /\ cell = values[1]

isin(cell, values) == \E i \in 1..Len(values) : cell = values[i]

\* Series / 1000 on a numeric cell (NaN stays NaN)
\* fault: milliseconds are not converted
div1000_id(cell) == cell

div1000(cell) == IF cell = NA THEN NA ELSE <<cell[1] \div 1000>>

\* Series + n on a numeric cell
plus(cell, n) == IF cell = NA THEN NA ELSE <<cell[1] + Fx(n)>>

\* DataFrame.isna().all(axis=None): every cell of every row is missing
isna(column, cell) ==
    IF column \in {"onset", "duration", "response_time"} THEN cell = NA ELSE cell = NaN

isna_all(df) ==
    \A i \in 1..Len(df) : \A column \in DOMAIN df[i] : isna(column, df[i][column])

\* the guarded pd.concat([new_events, df], ignore_index=True)
\* fault: the new rows replace the table instead of extending it
concat_replace(new_events, df) ==
    IF df # <<>> /\ ~isna_all(df) THEN df ELSE new_events

concat(new_events, df) ==
    IF df # <<>> /\ ~isna_all(df) THEN new_events \o df ELSE new_events

\* position of row i after DataFrame.sort_values(by='onset').  The default
\* kind is quicksort, which is not stable: rows of equal onset come out in an
\* order fixed by the build, here either the order of emission or its reverse.
sort_rank(df, i, kind) ==
    1 + Cardinality({j \in 1..Len(df) : df[j].onset[1] < df[i].onset[1]})
      + Cardinality({j \in 1..Len(df) :
            /\ df[j].onset[1] = df[i].onset[1]
            /\ IF kind = "emission" THEN j < i ELSE j > i})

\* fault: the table is left in emission order
sort_values_none(df, kind) == df

sort_values(df, kind) ==
    [k \in 1..Len(df) |-> df[CHOOSE i \in 1..Len(df) : sort_rank(df, i, kind) = k]]

----------------------------------------------------------------------------
(* The rule tables *)

Scalar(v) == [islist |-> FALSE, v |-> v]
List(vs) == [islist |-> TRUE, v |-> vs]

\* criteria of one rule of the conditions dict
criteria(name) ==
    CASE name = "negT" ->
            [condition_img |-> Scalar(ENEG), trial_type |-> Scalar(tt_r), intrusion |-> Scalar(1)]
      [] name = "negNTi" ->
            [condition_img |-> Scalar(ENEG), trial_type |-> Scalar(tt_s), intrusion |-> Scalar(1)]
      [] name = "negNTni" ->
            [condition_img |-> Scalar(ENEG), trial_type |-> Scalar(tt_s), intrusion |-> Scalar(0)]
      [] name = "neutrT" ->
            [condition_img |-> Scalar(ENEU), trial_type |-> Scalar(tt_r), intrusion |-> Scalar(1)]
      [] name = "neutrNTi" ->
            [condition_img |-> Scalar(ENEU), trial_type |-> Scalar(tt_s), intrusion |-> Scalar(1)]
      [] name = "neutrNTni" ->
            [condition_img |-> Scalar(ENEU), trial_type |-> Scalar(tt_s), intrusion |-> Scalar(0)]
      [] name = "filler" ->
            [condition_img |-> Scalar(FN), trial_type |-> List(<<tt_sF, tt_rF>>),
             intrusion |-> List(<<1, 0>>)]

\* the keys of the conditions dict, in insertion order, of each script
conditions_rating ==
    <<"negT", "negNTi", "negNTni", "neutrT", "neutrNTi", "neutrNTni", "filler">>

conditions_rt ==
    <<"negT", "negNTi", "negNTni", "neutrT", "neutrNTi", "neutrNTni">>

conditions(v) == IF v = "rating" THEN conditions_rating ELSE conditions_rt

new_header(v) ==
    IF v = "rating"
    THEN <<"onset", "duration", "trial_type", "stim_file">>
    ELSE <<"onset", "duration", "trial_type", "response_time", "stim_file">>

RatingOffset == 3

----------------------------------------------------------------------------
(* The conditions loop *)

trial_type_filter(row, c) ==
    IF c.trial_type.islist
    THEN isin(row.trial_type, c.trial_type.v)
    ELSE str_contains(row.trial_type, c.trial_type.v)

intrusion_filter(row, c) ==
    IF c.intrusion.islist
    THEN isin(row.intrusion, c.intrusion.v)
    ELSE row.intrusion = c.intrusion.v

\* fault: the condition_img column is not tested
mask_rating_any_img(row, c) ==
    /\ trial_type_filter(row, c)
    /\ intrusion_filter(row, c)

\* the boolean mask of the rating script for one row
mask_rating(row, c) ==
    /\ str_contains(row.condition_img, c.condition_img.v)
    /\ trial_type_filter(row, c)
    /\ intrusion_filter(row, c)

\* fault: the response_time script wants trial_type to equal the pattern
mask_rt_eq(row, c) ==
    /\ str_contains(row.condition_img, c.condition_img.v)
    /\ row.trial_type = c.trial_type.v
    /\ row.intrusion = c.intrusion.v

\* the boolean mask of the response_time script for one row
mask_rt(row, c) ==
    /\ str_contains(row.condition_img, c.condition_img.v)
    /\ str_contains(row.trial_type, c.trial_type.v)
    /\ row.intrusion = c.intrusion.v

mask(v, row, c) == IF v = "rating" THEN mask_rating(row, c) ELSE mask_rt(row, c)

filtered_events(v, events_for_run, name) ==
    SelectSeq(events_for_run, LAMBDA row : mask(v, row, criteria(name)))

new_data_rating(filtered, name) ==
    [i \in 1..Len(filtered) |->
        [onset |-> div1000(filtered[i].onset),
         duration |-> div1000(filtered[i].duration),
         trial_type |-> Lbl(name),
         stim_file |-> filtered[i].condition_img]]

new_data_rt(filtered, name) ==
    [i \in 1..Len(filtered) |->
        [onset |-> div1000(filtered[i].onset),
         duration |-> <<0>>,
         trial_type |-> Lbl(name),
         response_time |-> filtered[i].RT,
         stim_file |-> filtered[i].condition_img]]

\* fault: the reaction time is divided by 1000 like onset and duration
rating_data_div(filtered) ==
    [i \in 1..Len(filtered) |->
        [onset |-> plus(div1000(filtered[i].onset), RatingOffset),
         duration |-> div1000(filtered[i].RT),
         trial_type |-> Lbl("rating"),
         stim_file |-> filtered[i].condition_img]]

rating_data(filtered) ==
    [i \in 1..Len(filtered) |->
        [onset |-> plus(div1000(filtered[i].onset), RatingOffset),
         duration |-> filtered[i].RT,
         trial_type |-> Lbl("rating"),
         stim_file |-> filtered[i].condition_img]]

\* one iteration of the conditions loop: new_events after rule `name`
condition_step(v, new_events, events_for_run, name) ==
    LET filtered == filtered_events(v, events_for_run, name) IN
    IF filtered = <<>> THEN new_events
    ELSE IF v = "rating"
         THEN concat(concat(new_events, new_data_rating(filtered, name)),
                     rating_data(filtered))
         ELSE concat(new_events, new_data_rt(filtered, name))

\* new_events after the first k rules of `order`, starting from the empty table
RECURSIVE conditions_loop(_, _, _, _)
conditions_loop(v, order, k, events_for_run) ==
    IF k = 0 THEN <<>>
    ELSE condition_step(v, conditions_loop(v, order, k - 1, events_for_run),
                        events_for_run, order[k])

\* events[events['run'] == run]
run_filter(events, run) == SelectSeq(events, LAMBDA row : row.run = run)

\* the table handed to to_csv for one events file
new_events_table(v, order, events, run, kind) ==
    sort_values(conditions_loop(v, order, Len(order), run_filter(events, run)), kind)

----------------------------------------------------------------------------
(* The files *)

s01 == <<"0", "1">>
s02 == <<"0", "2">>
s010 == <<"0", "1", "0">>

\* layout.get(suffix='events', extension='tsv'), with the entities of each file
events_files ==
    <<[subject |-> s01, run |-> 1], [subject |-> s01, run |-> 2], [subject |-> s02, run |-> 1]>>

Units == 1..Len(events_files)

\* rows a source spreadsheet may hold (the columns the scripts read)
Trial(img, tt, intr, rt, on, dur, run) ==
    [condition_img |-> img, trial_type |-> tt, intrusion |-> intr, RT |-> rt,
     onset |-> Num(on), duration |-> Num(dur), run |-> run]

TrialPool ==
    { Trial(ENEG, tt_r, 1, <<1200>>, 12000, 500, 1),    \* negT
      Trial(ENEG, tt_sF, 1, NA, 15000, 500, 1),          \* negNTi ('s' is found in 'sF'), no response
      Trial(FN, tt_rF, 0, <<700>>, 5000, 500, 1),        \* filler
      Trial(ENEG, tt_sr, 1, <<600>>, 12000, 500, 1),     \* both 'r' and 's' are found
      Trial(ENEU, NaN, 1, <<500>>, 5000, 500, 1),        \* trial_type missing
      Trial(ENEU, tt_r, 1, <<1100>>, 2000, 500, 2) }     \* neutrT, run 2

\* the values the experiment writes into the three classified columns
ValidTrials ==
    {Trial(img, tt, intr, <<700>>, 5000, 500, 1) :
        img \in {ENEG, ENEU, FN}, tt \in {tt_r, tt_s, tt_sF, tt_rF}, intr \in {0, 1}}

RECURSIVE Tables(_)
Tables(n) ==
    IF n = 0 THEN {<<>>}
    ELSE Tables(n - 1) \cup
         {Append(t, r) : t \in {u \in Tables(n - 1) : Len(u) = n - 1}, r \in TrialPool}

File(stem, readable, rows) == [stem |-> stem, readable |-> readable, rows |-> rows]

File010 == File(s010, TRUE, <<Trial(ENEU, tt_r, 1, <<300>>, 1000, 500, 1)>>)
File02 == File(s02, TRUE, <<Trial(ENEG, tt_s, 0, <<400>>, 4000, 500, 1)>>)

Files01 == {File(s01, TRUE, t) : t \in Tables(MaxTrials)} \cup {File(s01, FALSE, <<>>)}

Files01Short == {f \in Files01 : Len(f.rows) <= 1}

\* the possible listings of source_events_path, in the order glob yields them
\* (next to a second match, and without the file of subject 02, the
\* spreadsheet of subject 01 is short)
Listings ==
    LET for01 == {<<>>} \cup {<<File010>>} \cup {<<f>> : f \in Files01}
                 \cup {<<f, File010>> : f \in Files01Short}
                 \cup {<<File010, f>> : f \in Files01Short}
    IN  {d \o <<File02>> : d \in for01} \cup {<<>>} \cup {<<f>> : f \in Files01Short}
            \cup {<<File(s01, TRUE, <<t>>), File02>> : t \in ValidTrials}

\* source_events_path.glob(f"{subj}*.xls")
\* fault: only the file named exactly after the subject is found
glob_exact(dir, subj) == SelectSeq(dir, LAMBDA f : f.stem = subj)

glob(dir, subj) ==
    SelectSeq(dir, LAMBDA f : Len(f.stem) >= Len(subj) /\ SubSeq(f.stem, 1, Len(subj)) = subj)

\* what the BIDS conversion left in every events file
StaleRow == [onset |-> Num(1), duration |-> Num(0), trial_type |-> Lbl("TODO"), stim_file |-> FN]

Stub == [header |-> <<"onset", "duration", "trial_type", "response_time", "stim_file">>,
         rows |-> <<StaleRow>>]

Truncated == [header |-> <<>>, rows |-> <<>>]

Msg(kind, u) == [msg |-> kind, unit |-> u]

----------------------------------------------------------------------------
(* The script *)

Init ==
    /\ variant \in {"rating", "response_time"}
    /\ sortKind \in {"emission", "reversed"}
    /\ sourceDir \in Listings
    /\ dest = [u \in Units |-> Stub]
    /\ unwritable \in {{}, {1}}
    /\ idx = 1
    /\ log = <<>>
    /\ written = [u \in Units |-> FALSE]
    /\ inflight = [u \in Units |-> <<>>]
    /\ seqinfo = <<>>
    /\ info = <<>>

Running == idx \in Units

Subj == events_files[idx].subject
Run == events_files[idx].run
Matches == glob(sourceDir, Subj)
Events == Head(Matches).rows
Env == <<variant, sortKind, sourceDir, unwritable, inflight, seqinfo, info>>

\* where the loop goes after an except branch or an empty run: continue
\* fault: the error ends the loop
after_error_abort(i) == Len(events_files) + 1

after_error(i) == i + 1

\* next(glob(...)) raises StopIteration: print and continue
SourceNotFound ==
    /\ Running
    /\ Matches = <<>>
    /\ log' = log \o <<Msg("Processing", idx), Msg("NoSourceFound", idx)>>
    /\ idx' = after_error(idx)
    /\ UNCHANGED <<Env, dest, written>>

\* pd.read_excel raises: print and continue
SourceReadError ==
    /\ Running
    /\ Matches # <<>>
    /\ ~Head(Matches).readable
    /\ log' = log \o <<Msg("Processing", idx), Msg("ErrorReading", idx)>>
    /\ idx' = after_error(idx)
    /\ UNCHANGED <<Env, dest, written>>

\* fault: a run without events empties the events file
NoRowsForRunTruncating ==
    /\ Running
    /\ Matches # <<>>
    /\ Head(Matches).readable
    /\ run_filter(Events, Run) = <<>>
    /\ log' = log \o <<Msg("Processing", idx), Msg("NoEventsFound", idx)>>
    /\ idx' = after_error(idx)
    /\ dest' = [dest EXCEPT ![idx] = Truncated]
    /\ UNCHANGED <<Env, written>>

\* events_for_run.empty: print and continue
NoRowsForRun ==
    /\ Running
    /\ Matches # <<>>
    /\ Head(Matches).readable
    /\ run_filter(Events, Run) = <<>>
    /\ log' = log \o <<Msg("Processing", idx), Msg("NoEventsFound", idx)>>
    /\ idx' = after_error(idx)
    /\ UNCHANGED <<Env, dest, written>>

\* the table replacing the events file
NewFile == [header |-> new_header(variant),
            rows |-> new_events_table(variant, conditions(variant), Events, Run, sortKind)]

\* fault: the new rows are appended to the content of the events file
NewFileAppended == [header |-> new_header(variant), rows |-> dest[idx].rows \o NewFile.rows]

ToCsv == NewFile

\* what the try/except around to_csv prints
\* fault: "Replaced" is printed whether or not to_csv raised
save_message_outside_try(raised) == "Replaced"

save_message(raised) == IF raised THEN "ErrorSaving" ELSE "Replaced"

\* conditions loop, sort, to_csv succeeds
Replaced ==
    /\ Running
    /\ Matches # <<>>
    /\ Head(Matches).readable
    /\ run_filter(Events, Run) # <<>>
    /\ idx \notin unwritable
    /\ dest' = [dest EXCEPT ![idx] = ToCsv]
    /\ written' = [written EXCEPT ![idx] = TRUE]
    /\ log' = log \o <<Msg("Processing", idx), Msg(save_message(FALSE), idx)>>
    /\ idx' = idx + 1
    /\ UNCHANGED Env

\* conditions loop, sort, to_csv raises: the file is as it was when open
\* failed, or cut short when a write failed
DestinationWriteError ==
    /\ Running
    /\ Matches # <<>>
    /\ Head(Matches).readable
    /\ run_filter(Events, Run) # <<>>
    /\ idx \in unwritable
    /\ \E cut \in BOOLEAN :
          /\ dest' = IF cut THEN [dest EXCEPT ![idx] = Truncated] ELSE dest
          /\ written' = IF cut THEN [written EXCEPT ![idx] = FALSE] ELSE written
    /\ log' = log \o <<Msg("Processing", idx), Msg(save_message(TRUE), idx)>>
    /\ idx' = after_error(idx)
    /\ UNCHANGED Env

\* the loop is over; the script is started again on the same files
Rerun ==
    /\ ~Running
    /\ idx' = 1
    /\ log' = <<>>
    /\ UNCHANGED <<Env, dest, written>>

Next ==
    \/ SourceNotFound
    \/ SourceReadError
    \/ NoRowsForRun
    \/ Replaced
    \/ DestinationWriteError
    \/ Rerun

Spec == Init /\ [][Next]_vars

----------------------------------------------------------------------------
(* What the properties speak about *)

\* the loop has just replaced the events file of unit u
JustWritten(u) == written[u] /\ idx = u + 1 /\ log # <<>> /\ log[Len(log)] = Msg("Replaced", u)

\* the spreadsheet the lookup hands to unit u, and its rows of the unit's run
SourceOf(u) == Head(glob(sourceDir, events_files[u].subject)).rows
RunRows(u) == run_filter(SourceOf(u), events_files[u].run)
Rows(u) == dest[u].rows
RuleNames == {conditions(variant)[k] : k \in 1..Len(conditions(variant))}

\* (trial, rule) pairs of unit u that the script's mask selects
MatchedPairs(u) ==
    {p \in (1..Len(RunRows(u))) \X RuleNames : mask(variant, RunRows(u)[p[1]], criteria(p[2]))}

\* s = a \o p \o b for some a, b
IsSubstring(p, s) ==
    \E a \in 0..Len(s) : \E b \in a..Len(s) : [k \in 1..(b - a) |-> s[a + k]] = p

\* the matching semantics of the Condition Classifier, as specified
PatternMatches(pattern, value, isString) ==
    IF pattern.islist THEN value \in {pattern.v[k] : k \in 1..Len(pattern.v)}
    ELSE IF isString THEN IsSubstring(pattern.v, value)
    ELSE value = pattern.v

RuleMatches(name, t) ==
    /\ PatternMatches(criteria(name).condition_img, t.condition_img, TRUE)
    /\ PatternMatches(criteria(name).trial_type, t.trial_type, TRUE)
    /\ PatternMatches(criteria(name).intrusion, t.intrusion, FALSE)

\* the cell s is the millisecond cell ms expressed in seconds
InSeconds(s, ms) == ms[1] % 1000 = 0 /\ s[1] = ms[1] \div 1000

\* row is an event of trial t: same stimulus, onset of t in seconds
IsPrimaryOf(row, t, name) ==
    /\ row.trial_type = Lbl(name)
    /\ row.stim_file = t.condition_img
    /\ InSeconds(row.onset, t.onset)

IsRatingOf(row, t) ==
    /\ row.trial_type = Lbl("rating")
    /\ row.stim_file = t.condition_img
    /\ InSeconds(<<row.onset[1] - Fx(3)>>, t.onset)
    /\ row.duration = t.RT

----------------------------------------------------------------------------
\* C1: in every written table, for every trial of the selected run and every
\* rule, the rule is in the trial's match set exactly when its three patterns
\* match the trial (scalar on condition_img and trial_type by substring,
\* scalar on intrusion by equality, a collection by membership): the table
\* holds as many rows of the rule for the trial's stimulus and onset as there
\* are trials of that stimulus and onset that the rule matches.
C1_MatchSet ==
    \A u \in Units : JustWritten(u) =>
        \A n \in RuleNames : \A j \in 1..Len(RunRows(u)) :
            LET t == RunRows(u)[j] IN
            Cardinality({i \in 1..Len(Rows(u)) : IsPrimaryOf(Rows(u)[i], t, n)})
            = Cardinality({k \in 1..Len(RunRows(u)) :
                  /\ RunRows(u)[k].condition_img = t.condition_img
                  /\ RunRows(u)[k].onset = t.onset
                  /\ RuleMatches(n, RunRows(u)[k])})

\* a written table where 's' matched inside 'sF' and a missing trial_type matched nothing
C1_Witness ==
    /\ JustWritten(1)
    /\ \E j \in 1..Len(RunRows(1)) : RunRows(1)[j].trial_type = tt_sF
          /\ \E i \in 1..Len(Rows(1)) : IsPrimaryOf(Rows(1)[i], RunRows(1)[j], "negNTi")
    /\ \E j \in 1..Len(RunRows(1)) : RunRows(1)[j].trial_type = NaN

\* C2: for every matched (trial, rule) pair the written table has a row with
\* onset = onset_ms / 1000, trial_type = the rule's name, stim_file =
\* condition_img, and duration = duration_ms / 1000 (rating script) or 0
\* (response_time script); onset_ms 5000 gives 5.0, and onset_ms 12000 with
\* duration_ms 500 under negT gives 12.0, 0.5, negT, ENEG.
C2_PrimaryEvent ==
    \A u \in Units : JustWritten(u) =>
        /\ \A p \in MatchedPairs(u) :
              LET t == RunRows(u)[p[1]] IN
              \E i \in 1..Len(Rows(u)) :
                  /\ IsPrimaryOf(Rows(u)[i], t, p[2])
                  /\ IF variant = "rating"
                     THEN InSeconds(Rows(u)[i].duration, t.duration)
                     ELSE Rows(u)[i].duration = <<0>>
        /\ \A p \in MatchedPairs(u) :
              LET t == RunRows(u)[p[1]] IN
              /\ t.onset = <<5000000>> =>
                    \E i \in 1..Len(Rows(u)) :
                        Rows(u)[i].onset = <<5000>> /\ Rows(u)[i].trial_type = Lbl(p[2])
              /\ (variant = "rating" /\ p[2] = "negT" /\ t.onset = <<12000000>>
                    /\ t.duration = <<500000>> /\ t.condition_img = ENEG) =>
                    \E i \in 1..Len(Rows(u)) :
                        Rows(u)[i] = [onset |-> <<12000>>, duration |-> <<500>>,
                                      trial_type |-> <<"negT">>, stim_file |-> ENEG]

\* both examples of the claim written in one table of the rating script
C2_Witness ==
    /\ variant = "rating"
    /\ JustWritten(1)
    /\ \E i \in 1..Len(Rows(1)) :
          Rows(1)[i] = [onset |-> <<12000>>, duration |-> <<500>>,
                        trial_type |-> <<"negT">>, stim_file |-> ENEG]
    /\ \E i \in 1..Len(Rows(1)) :
          Rows(1)[i].onset = <<5000>> /\ Rows(1)[i].trial_type = <<"filler">>

\* C3: in the rating script every matched (trial, rule) pair also yields one
\* row with onset = onset_ms / 1000 + 3, duration = the reaction time as it
\* stands in the source, trial_type "rating" and stim_file = condition_img
\* (onset_ms 12000 with reaction time 1.2 gives onset 15.0, duration 1.2).
C3_RatingEvent ==
    \A u \in Units : (JustWritten(u) /\ variant = "rating") =>
        /\ \A p \in MatchedPairs(u) :
              \E i \in 1..Len(Rows(u)) : IsRatingOf(Rows(u)[i], RunRows(u)[p[1]])
        /\ Cardinality({i \in 1..Len(Rows(u)) : Rows(u)[i].trial_type = Lbl("rating")})
           = Cardinality(MatchedPairs(u))
        /\ \A p \in MatchedPairs(u) :
              LET t == RunRows(u)[p[1]] IN
              (t.onset = <<12000000>> /\ t.RT = <<1200>>) =>
                  \E i \in 1..Len(Rows(u)) :
                      Rows(u)[i] = [onset |-> <<15000>>, duration |-> <<1200>>,
                                    trial_type |-> <<"rating">>, stim_file |-> t.condition_img]

\* the example's rating row, and a rating row of a trial without reaction time
C3_Witness ==
    /\ variant = "rating"
    /\ JustWritten(1)
    /\ \E i \in 1..Len(Rows(1)) :
          Rows(1)[i] = [onset |-> <<15000>>, duration |-> <<1200>>,
                        trial_type |-> <<"rating">>, stim_file |-> ENEG]
    /\ \E i \in 1..Len(Rows(1)) :
          Rows(1)[i].trial_type = <<"rating">> /\ Rows(1)[i].duration = NA

\* C4: every written table is non-decreasing in onset, and a trial's primary
\* row comes before that trial's rating row.
C4_Ordering ==
    \A u \in Units : JustWritten(u) =>
        /\ \A i \in 1..Len(Rows(u)) : \A j \in i..Len(Rows(u)) :
              Rows(u)[i].onset[1] <= Rows(u)[j].onset[1]
        /\ \A p \in MatchedPairs(u) : \A i \in 1..Len(Rows(u)) : \A j \in 1..Len(Rows(u)) :
              (/\ IsPrimaryOf(Rows(u)[i], RunRows(u)[p[1]], p[2])
               /\ IsRatingOf(Rows(u)[j], RunRows(u)[p[1]])) => i < j

\* a rating table whose source lists a later trial before an earlier one
C4_Witness ==
    /\ variant = "rating"
    /\ JustWritten(1)
    /\ Len(RunRows(1)) = 2
    /\ RunRows(1)[1].onset[1] > RunRows(1)[2].onset[1]
    /\ Cardinality(MatchedPairs(1)) >= 2

\* the rows of unit u in the order the conditions loop emitted them
Emitted(u) == conditions_loop(variant, conditions(variant), Len(conditions(variant)), RunRows(u))

\* C5: the sort by onset is stable: rows of equal onset stand in the written
\* table in the order in which they were emitted.
C5_StableSort ==
    \A u \in Units : JustWritten(u) =>
        \A i \in 1..Len(Emitted(u)) : \A j \in (i + 1)..Len(Emitted(u)) :
            (Emitted(u)[i].onset = Emitted(u)[j].onset /\ Emitted(u)[i] # Emitted(u)[j]) =>
                \E a \in 1..Len(Rows(u)) : \E b \in (a + 1)..Len(Rows(u)) :
                    Rows(u)[a] = Emitted(u)[i] /\ Rows(u)[b] = Emitted(u)[j]

\* every row of a written table comes from a trial of the unit's run
DerivedOnly(u) ==
    /\ dest[u].header = new_header(variant)
    /\ \A i \in 1..Len(Rows(u)) : \E j \in 1..Len(RunRows(u)) :
          /\ Rows(u)[i].stim_file = RunRows(u)[j].condition_img
          /\ \/ InSeconds(Rows(u)[i].onset, RunRows(u)[j].onset)
             \/ /\ Rows(u)[i].trial_type = Lbl("rating")
                /\ InSeconds(<<Rows(u)[i].onset[1] - Fx(3)>>, RunRows(u)[j].onset)

\* C6: a written table holds only events derived from the current source rows
\* of its run, nothing of the file's previous content or of another unit, and
\* writing it again from the same inputs leaves the same table.
C6_ReplaceIdempotent ==
    [][\A u \in Units : JustWritten(u)' =>
            /\ DerivedOnly(u)'
            /\ written[u] => dest'[u] = dest[u]]_vars

\* unit 1 written again: the last unit was written by the run before
C6_Witness ==
    /\ JustWritten(1)
    /\ written[3]
    /\ Rows(1) # <<>>

\* C7: a trial matching no rule adds no row and no error, a trial matching k
\* rules adds k primary rows: the written table has as many rows as there are
\* matched (trial, rule) pairs (response_time script), twice as many (rating
\* script).
C7_RowPerMatch ==
    \A u \in Units : JustWritten(u) =>
        /\ Cardinality({i \in 1..Len(Rows(u)) : Rows(u)[i].trial_type # Lbl("rating")})
           = Cardinality(MatchedPairs(u))
        /\ Len(Rows(u)) = (IF variant = "rating" THEN 2 ELSE 1) * Cardinality(MatchedPairs(u))
        /\ \A j \in 1..Len(RunRows(u)) : \A n \in RuleNames :
              Cardinality({i \in 1..Len(Rows(u)) : IsPrimaryOf(Rows(u)[i], RunRows(u)[j], n)})
              = Cardinality({k \in 1..Len(RunRows(u)) :
                    /\ RunRows(u)[k].condition_img = RunRows(u)[j].condition_img
                    /\ RunRows(u)[k].onset = RunRows(u)[j].onset
                    /\ <<k, n>> \in MatchedPairs(u)})

\* a written table from one trial matching two rules and one matching none
C7_Witness ==
    /\ JustWritten(1)
    /\ Len(RunRows(1)) = 2
    /\ \E j \in 1..2 : Cardinality({p \in MatchedPairs(1) : p[1] = j}) = 2
    /\ \E j \in 1..2 : Cardinality({p \in MatchedPairs(1) : p[1] = j}) = 0

\* the rule order with the rules at positions a and b exchanged
Swap(order, a, b) ==
    [k \in 1..Len(order) |-> IF k = a THEN order[b] ELSE IF k = b THEN order[a] ELSE order[k]]

\* other orders of the same rules: every exchange of two rules, and the reverse
Reorderings(order) ==
    {Swap(order, a, b) : a, b \in 1..Len(order)}
        \cup {[k \in 1..Len(order) |-> order[Len(order) + 1 - k]]}

\* the table unit u would get with the rules evaluated in the given order
TableUnder(u, order) ==
    new_events_table(variant, order, SourceOf(u), events_files[u].run, sortKind)

Count(table, row) == Cardinality({i \in 1..Len(table) : table[i] = row})

SameRows(t1, t2) ==
    /\ Len(t1) = Len(t2)
    /\ \A i \in 1..Len(t1) : Count(t1, t1[i]) = Count(t2, t1[i])

Outcomes(u) == {k \in 1..Len(log) : log[k].unit = u /\ log[k].msg # "Processing"}

NumMatches(u) == Len(glob(sourceDir, events_files[u].subject))

\* C9: the lookup by subject-ID prefix fails with "no source found" when no
\* source file matches and also when more than one matches.
C9_AmbiguousLookupFails ==
    \A u \in Units : \A k \in Outcomes(u) :
        NumMatches(u) # 1 => log[k].msg = "NoSourceFound"

ErrorMessages == {"NoSourceFound", "ErrorReading", "NoEventsFound", "ErrorSaving"}

\* C10: a unit without source, without rows for its run, or whose events file
\* cannot be written ends in one printed error, never in silence and never
\* in "Replaced".
C10_FailsLoudly ==
    \A u \in Units : u < idx =>
        /\ Cardinality(Outcomes(u)) = 1
        /\ \A k \in Outcomes(u) :
              /\ NumMatches(u) = 0 => log[k].msg = "NoSourceFound"
              /\ (NumMatches(u) > 0 /\ Head(glob(sourceDir, events_files[u].subject)).readable
                    /\ RunRows(u) = <<>>) => log[k].msg = "NoEventsFound"
              /\ u \in unwritable => log[k].msg \in ErrorMessages
              /\ (u \in unwritable /\ NumMatches(u) > 0
                    /\ Head(glob(sourceDir, events_files[u].subject)).readable
                    /\ RunRows(u) # <<>>) => log[k].msg = "ErrorSaving"

\* one invocation that met all three failures
C10_Witness ==
    /\ idx = 4
    /\ \E k \in 1..Len(log) : log[k] = Msg("ErrorSaving", 1)
    /\ \E k \in 1..Len(log) : log[k] = Msg("NoEventsFound", 2)
    /\ \E k \in 1..Len(log) : log[k] = Msg("NoSourceFound", 3)

\* the table unit u gets when it is processed alone
AloneTable(u) ==
    new_events_table(variant, conditions(variant), SourceOf(u), events_files[u].run, sortKind)

\* C11: an error in one unit is reported for that unit and does not abort the
\* batch: every unit the loop has passed has exactly one outcome, when the
\* loop is over every unit has one, and a table written after a failed unit
\* is the table its unit gets without the failed one.
C11_FailureIsolation ==
    /\ \A u \in Units : u < idx => Cardinality(Outcomes(u)) = 1
    /\ ~Running => \A u \in Units : Cardinality(Outcomes(u)) = 1
    /\ \A u \in Units :
          (JustWritten(u) /\ \E k \in 1..Len(log) : log[k].msg \in ErrorMessages) =>
              Rows(u) = AloneTable(u)

\* the last unit written after the two units before it failed
C11_Witness ==
    /\ JustWritten(3)
    /\ \E k \in 1..Len(log) : log[k].unit = 1 /\ log[k].msg \in ErrorMessages
    /\ \E k \in 1..Len(log) : log[k].unit = 2 /\ log[k].msg \in ErrorMessages

\* the run of unit u has rows, and no rule matches any of them
EmptyMatch(u) == RunRows(u) # <<>> /\ MatchedPairs(u) = {}

\* C12: when the run has source rows but none matches a rule, the unit
\* succeeds, its events file becomes a table of the header row only, and a
\* skip notice is logged.
C12_EmptyMatchLogged ==
    \A u \in Units : (u < idx /\ NumMatches(u) > 0 /\ u \notin unwritable /\ EmptyMatch(u)) =>
        /\ written[u]
        /\ dest[u] = [header |-> new_header(variant), rows |-> <<>>]
        /\ \E k \in Outcomes(u) : log[k].msg \notin {"Replaced"} \cup ErrorMessages

SkipMessages == {"NoSourceFound", "ErrorReading", "NoEventsFound"}

\* the last line printed says that unit u was skipped
SkipPrinted(u) == log # <<>> /\ log[Len(log)].unit = u /\ log[Len(log)].msg \in SkipMessages

\* C15: a unit skipped for want of a source file, of a readable source or of
\* rows for its run leaves its events file exactly as it was, and the loop
\* moves on to the next unit.
C15_SkipLeavesFile ==
    [][\A u \in Units : (idx = u /\ SkipPrinted(u)') =>
            dest' = dest /\ written' = written /\ idx' = u + 1]_vars

\* unit 2 skipped after unit 1 was written: its events file is still what
\* the BIDS conversion left
C15_Witness ==
    /\ idx = 3
    /\ SkipPrinted(2)
    /\ written[1]
    /\ dest[2] = Stub

\* the three classified columns of t hold values of the experiment
IsValid(t) ==
    /\ t.condition_img \in {ENEG, ENEU, FN}
    /\ t.trial_type \in {tt_r, tt_s, tt_sF, tt_rF}
    /\ t.intrusion \in {0, 1}

\* C16: with the rule table of either script, a trial whose condition_img is
\* ENEG, ENEU or FN, whose trial_type is r, s, sF or rF and whose intrusion is
\* 0 or 1 matches at most one rule, so the written table has no more primary
\* rows than the run has trials.
C16_RulesDisjoint ==
    \A u \in Units :
        (JustWritten(u) /\ \A j \in 1..Len(RunRows(u)) : IsValid(RunRows(u)[j])) =>
            /\ \A j \in 1..Len(RunRows(u)) :
                  Cardinality({p \in MatchedPairs(u) : p[1] = j}) <= 1
            /\ Cardinality({i \in 1..Len(Rows(u)) : Rows(u)[i].trial_type # Lbl("rating")})
               <= Len(RunRows(u))

\* a table written from a trial of the experiment's values under exactly one rule
C16_Witness ==
    /\ JustWritten(1)
    /\ RunRows(1) = <<Trial(ENEU, tt_sF, 0, <<700>>, 5000, 500, 1)>>
    /\ Cardinality({i \in 1..Len(Rows(1)) : Rows(1)[i].trial_type = Lbl("neutrNTni")}) = 1
    /\ Cardinality({i \in 1..Len(Rows(1)) : Rows(1)[i].trial_type # Lbl("rating")}) = 1

\* the classified events of a table: onset, label and stimulus of the rows
\* that are neither rating rows nor filler rows
Classified(table) ==
    LET kept == SelectSeq(table, LAMBDA row : row.trial_type \notin {Lbl("rating"), Lbl("filler")})
    IN  [i \in 1..Len(kept) |-> <<kept[i].onset, kept[i].trial_type, kept[i].stim_file>>]

\* the table the other script writes for unit u
OtherScript == IF variant = "rating" THEN "response_time" ELSE "rating"
OtherTable(u) ==
    new_events_table(OtherScript, conditions(OtherScript), SourceOf(u),
                     events_files[u].run, sortKind)

\* C17: for the same source rows the rows written by the response_time script
\* and the primary rows of the rating script other than 'filler' are the same
\* events (onset, trial_type, stim_file), each as many times.
C17_SameClassification ==
    \A u \in Units : JustWritten(u) =>
        SameRows(Classified(Rows(u)), Classified(OtherTable(u)))

\* a table of the rating script with a filler row and a row matched by
\* substring, next to which the response_time script has one row
C17_Witness ==
    /\ variant = "rating"
    /\ JustWritten(1)
    /\ \E i \in 1..Len(Rows(1)) : Rows(1)[i].trial_type = Lbl("filler")
    /\ \E i \in 1..Len(Rows(1)) : Rows(1)[i].trial_type = Lbl("negNTi")
    /\ Len(Rows(1)) = 4
    /\ Len(OtherTable(1)) = 1

\* the columns the chosen output mode asks for
ColumnsOfMode(emit_rating_events) ==
    IF emit_rating_events
    THEN <<"onset", "duration", "trial_type", "stim_file">>
    ELSE <<"onset", "duration", "trial_type", "response_time", "stim_file">>

\* C14: the output mode follows a configuration flag: whichever value
\* emit_rating_events is given, the table a script writes has the columns of
\* that mode, and rating rows are written exactly when the flag is set.
C14_ModeFollowsFlag ==
    \A u \in Units : JustWritten(u) =>
        \A emit_rating_events \in BOOLEAN :
            /\ dest[u].header = ColumnsOfMode(emit_rating_events)
            /\ (\E i \in 1..Len(Rows(u)) : Rows(u)[i].trial_type = Lbl("rating")) =>
                   emit_rating_events

----------------------------------------------------------------------------
(* The loop body of every unit run by an external driver, one process per
   unit, the processes interleaved at their file accesses *)

ListingsShort == {d \in Listings : \A i \in 1..Len(d) : Len(d[i].rows) <= 1}

InitDriver ==
    /\ variant \in {"rating", "response_time"}
    /\ sortKind \in {"emission", "reversed"}
    /\ sourceDir \in ListingsShort
    /\ dest = [u \in Units |-> Stub]
    /\ unwritable \in {{}, {1}}
    /\ idx = 0
    /\ log = <<>>
    /\ written = [u \in Units |-> FALSE]
    /\ inflight = [u \in Units |-> <<>>]
    /\ seqinfo = <<>>
    /\ info = <<>>

\* the events file a unit writes: its own
\* fault: every unit writes the events file of the first unit
events_file_path_shared(u) == 1

events_file_path(u) == u

\* the process of unit u has printed its "Processing" line
Started(u) == \E k \in 1..Len(log) : log[k].unit = u

Fixed == <<variant, sortKind, sourceDir, unwritable, idx, seqinfo, info>>

UnitSourceNotFound(u) ==
    /\ ~Started(u)
    /\ glob(sourceDir, events_files[u].subject) = <<>>
    /\ log' = log \o <<Msg("Processing", u), Msg("NoSourceFound", u)>>
    /\ UNCHANGED <<Fixed, dest, written, inflight>>

UnitSourceReadError(u) ==
    /\ ~Started(u)
    /\ glob(sourceDir, events_files[u].subject) # <<>>
    /\ ~Head(glob(sourceDir, events_files[u].subject)).readable
    /\ log' = log \o <<Msg("Processing", u), Msg("ErrorReading", u)>>
    /\ UNCHANGED <<Fixed, dest, written, inflight>>

UnitNoRowsForRun(u) ==
    /\ ~Started(u)
    /\ glob(sourceDir, events_files[u].subject) # <<>>
    /\ Head(glob(sourceDir, events_files[u].subject)).readable
    /\ RunRows(u) = <<>>
    /\ log' = log \o <<Msg("Processing", u), Msg("NoEventsFound", u)>>
    /\ UNCHANGED <<Fixed, dest, written, inflight>>

\* lookup, read_excel, run filter, conditions loop and sort: new_events is
\* in the memory of the unit's process
UnitNewEvents(u) ==
    /\ ~Started(u)
    /\ glob(sourceDir, events_files[u].subject) # <<>>
    /\ Head(glob(sourceDir, events_files[u].subject)).readable
    /\ RunRows(u) # <<>>
    /\ inflight' = [inflight EXCEPT ![u] = <<AloneTable(u)>>]
    /\ log' = log \o <<Msg("Processing", u)>>
    /\ UNCHANGED <<Fixed, dest, written>>

\* to_csv succeeds
UnitReplaced(u) ==
    /\ inflight[u] # <<>>
    /\ events_file_path(u) \notin unwritable
    /\ dest' = [dest EXCEPT ![events_file_path(u)] =
                    [header |-> new_header(variant), rows |-> inflight[u][1]]]
    /\ written' = [written EXCEPT ![events_file_path(u)] = TRUE]
    /\ log' = log \o <<Msg(save_message(FALSE), u)>>
    /\ inflight' = [inflight EXCEPT ![u] = <<>>]
    /\ UNCHANGED Fixed

\* to_csv raises
UnitDestinationWriteError(u) ==
    /\ inflight[u] # <<>>
    /\ events_file_path(u) \in unwritable
    /\ \E cut \in BOOLEAN :
          /\ dest' = IF cut THEN [dest EXCEPT ![events_file_path(u)] = Truncated] ELSE dest
          /\ written' = IF cut THEN [written EXCEPT ![events_file_path(u)] = FALSE] ELSE written
    /\ log' = log \o <<Msg(save_message(TRUE), u)>>
    /\ inflight' = [inflight EXCEPT ![u] = <<>>]
    /\ UNCHANGED Fixed

NextDriver ==
    \/ \E u \in Units : UnitSourceNotFound(u)
    \/ \E u \in Units : UnitSourceReadError(u)
    \/ \E u \in Units : UnitNoRowsForRun(u)
    \/ \E u \in Units : UnitNewEvents(u)
    \/ \E u \in Units : UnitReplaced(u)
    \/ \E u \in Units : UnitDestinationWriteError(u)

SpecDriver == InitDriver /\ [][NextDriver]_vars

\* the events files after the body of the for loop has run for unit u on the
\* events files d (a unit whose to_csv raises aside)
loop_body(d, u) ==
    IF \/ glob(sourceDir, events_files[u].subject) = <<>>
       \/ ~Head(glob(sourceDir, events_files[u].subject)).readable
       \/ RunRows(u) = <<>>
       \/ events_file_path(u) \in unwritable
    THEN d
    ELSE [d EXCEPT ![events_file_path(u)] =
              [header |-> new_header(variant), rows |-> AloneTable(u)]]

\* for events_file in events_files, from position i on
RECURSIVE for_loop(_, _)
for_loop(d, i) ==
    IF i > Len(events_files) THEN d ELSE for_loop(loop_body(d, i), i + 1)

AllDone == \A u \in Units : Outcomes(u) # {}

\* C13: however a driver interleaves or reorders the units, an events file
\* other than the unit's own is never changed by a unit (a file differs from
\* what the conversion left only once its own unit reported a save), a unit
\* holds in memory the table of its own source lookup, and when all units are
\* done the events files are the ones the for loop leaves, one unit after the
\* other (a file whose to_csv raised is as it was or cut short).
C13_UnitIndependence ==
    /\ \A u \in Units :
          dest[u] # Stub => \E k \in Outcomes(u) : log[k].msg \in {"Replaced", "ErrorSaving"}
    /\ \A u \in Units : inflight[u] # <<>> => inflight[u][1] = AloneTable(u)
    /\ AllDone =>
          \A u \in Units :
              IF u \in unwritable
              THEN dest[u] \in {Stub, Truncated}
              ELSE dest[u] = for_loop([v \in Units |-> Stub], 1)[u]

\* units 1 and 3 interleaved and out of order: 3 starts first, 1 starts before
\* 3 saves, 3 saves before 1, and both events files are replaced
C13_Witness ==
    /\ AllDone
    /\ written[1] /\ written[3]
    /\ \E a, b, c, e \in 1..Len(log) :
          /\ a < b /\ b < c /\ c < e
          /\ log[a] = Msg("Processing", 3)
          /\ log[b] = Msg("Processing", 1)
          /\ log[c] = Msg("Replaced", 3)
          /\ log[e] = Msg("Replaced", 1)

----------------------------------------------------------------------------
(* bids_heuristic.py: the heuristic heudiconv calls with the DICOM series *)

MaxSeries == 2          \* series in seqinfo

\* a string is the sequence of its pieces; Python's  p in s
py_in(p, s) ==
    \E a \in 0..(Len(s) - Len(p)) : \A k \in 1..Len(p) : s[a + k] = p[k]

Series(id, files, d4, descr) ==
    [series_id |-> id, series_files |-> files, dim4 |-> d4, series_description |-> descr]

\* the series heudiconv may hand over
SeriesPool ==
    { Series(<<"2", "-", "mprage">>, 176, 1, <<"t1">>),
      Series(<<"3", "-", "MPRAGE">>, 176, 1, <<"t1">>),
      Series(<<"5", "-", "field_mapping">>, 62, 1, <<"gre">>),
      Series(<<"6", "-", "field_mapping">>, 31, 1, <<"gre">>),
      Series(<<"7", "-", "field_mapping">>, 40, 1, <<"gre">>),
      Series(<<"9", "-", "TNT", "_run1">>, 1, 300, <<"ep2d", "_run1">>),
      Series(<<"10", "-", "TNT", "_run1">>, 1, 300, <<"MoCo", "_run1">>),
      Series(<<"11", "-", "TNT", "_run2">>, 1, 100, <<"ep2d", "_run2">>),
      Series(<<"12", "_", "TNT">>, 1, 300, <<"ep2d">>),
      Series(<<"13", "-", "localizer">>, 3, 1, <<"loc">>),
      Series(<<"14", "-", "mprage", "_", "field_mapping">>, 62, 1, <<"gre">>),
      Series(<<"15", "-", "field_mapping", "-", "TNT">>, 31, 300, <<"ep2d">>) }

RECURSIVE SeqInfos(_)
SeqInfos(n) ==
    IF n = 0 THEN {<<>>}
    ELSE SeqInfos(n - 1) \cup
         {Append(q, x) : q \in {r \in SeqInfos(n - 1) : Len(r) = n - 1}, x \in SeriesPool}

create_key(template) ==
    IF template = "" THEN "ValueError" ELSE <<template, <<"nii.gz">>, "None">>

anat == create_key("sub-{subject}/anat/sub-{subject}_T1w")
fmap_mag == create_key("sub-{subject}/fmap/sub-{subject}_acq-func_magnitude")
fmap_phase == create_key("sub-{subject}/fmap/sub-{subject}_acq-func_phasediff")
func_task_tnt == create_key("sub-{subject}/func/sub-{subject}_task-tnt_run-{item:02d}_bold")

\* info = {anat: [], fmap_mag: [], fmap_phase: [], func_task_tnt: []}
empty_info == [k \in {anat, fmap_mag, fmap_phase, func_task_tnt} |-> <<>>]

is_anat(x) == py_in(<<"mprage">>, x.series_id)

\* fault: every field map counts as a magnitude image
is_fmap_mag_any(x) == py_in(<<"field_mapping">>, x.series_id)

is_fmap_mag(x) == py_in(<<"field_mapping">>, x.series_id) /\ x.series_files = 62

is_fmap_phase(x) == py_in(<<"field_mapping">>, x.series_id) /\ x.series_files = 31

is_func_task_tnt(x) ==
    /\ py_in(<<"-", "TNT">>, x.series_id)
    /\ x.dim4 > 100
    /\ ~py_in(<<"MoCo">>, x.series_description)

\* info[key].append(s.series_id) when the if holds
append_if(d, test, key, x) ==
    IF test THEN [d EXCEPT ![key] = Append(@, x.series_id)] ELSE d

\* the four ifs of the loop body, one after the other
classify(d, x) ==
    LET d1 == append_if(d, is_anat(x), anat, x)
        d2 == append_if(d1, is_fmap_mag(x), fmap_mag, x)
        d3 == append_if(d2, is_fmap_phase(x), fmap_phase, x)
    IN  append_if(d3, is_func_task_tnt(x), func_task_tnt, x)

\* for s in seqinfo, from position i on
RECURSIVE for_s(_, _, _)
for_s(d, q, i) == IF i > Len(q) THEN d ELSE for_s(classify(d, q[i]), q, i + 1)

infotodict(q) == for_s(empty_info, q, 1)

InitHeuristic ==
    /\ variant = "rating"
    /\ sortKind = "emission"
    /\ sourceDir = <<>>
    /\ dest = [u \in Units |-> Stub]
    /\ unwritable = {}
    /\ idx = 0
    /\ log = <<>>
    /\ written = [u \in Units |-> FALSE]
    /\ inflight = [u \in Units |-> <<>>]
    /\ seqinfo \in SeqInfos(MaxSeries)
    /\ info = <<>>

\* heudiconv calls infotodict(seqinfo)
Infotodict ==
    /\ info = <<>>
    /\ info' = <<infotodict(seqinfo)>>
    /\ UNCHANGED <<variant, sortKind, sourceDir, dest, unwritable, idx, log, written,
                   inflight, seqinfo>>

NextHeuristic == Infotodict

SpecHeuristic == InitHeuristic /\ [][NextHeuristic]_vars

\* the series_ids, in input order, of the series of q with property Holds
IdsWhere(q, Holds(_)) ==
    LET kept == SelectSeq(q, Holds) IN [i \in 1..Len(kept) |-> kept[i].series_id]

Listed(ids) == {ids[i] : i \in 1..Len(ids)}

IsMprage(x) == IsSubstring(<<"mprage">>, x.series_id)
IsMagnitude(x) == IsSubstring(<<"field_mapping">>, x.series_id) /\ x.series_files = 62
IsPhasediff(x) == IsSubstring(<<"field_mapping">>, x.series_id) /\ x.series_files = 31
IsTnt(x) ==
    /\ IsSubstring(<<"-", "TNT">>, x.series_id)
    /\ x.dim4 > 100
    /\ ~IsSubstring(<<"MoCo">>, x.series_description)

\* C18: the dictionary infotodict returns has exactly the four keys, also for
\* an empty seqinfo; the list of each key holds, in input order, exactly the
\* series_ids of the series satisfying the key's condition; no series_id is
\* under both magnitude and phasediff; a series satisfying no condition is
\* in no list.
C18_Infotodict ==
    info # <<>> =>
        LET r == info[1] IN
        /\ DOMAIN r = {anat, fmap_mag, fmap_phase, func_task_tnt}
        /\ Cardinality(DOMAIN r) = 4
        /\ r[anat] = IdsWhere(seqinfo, IsMprage)
        /\ r[fmap_mag] = IdsWhere(seqinfo, IsMagnitude)
        /\ r[fmap_phase] = IdsWhere(seqinfo, IsPhasediff)
        /\ r[func_task_tnt] = IdsWhere(seqinfo, IsTnt)
        /\ Listed(r[fmap_mag]) \cap Listed(r[fmap_phase]) = {}
        /\ \A i \in 1..Len(seqinfo) :
              ~(IsMprage(seqinfo[i]) \/ IsMagnitude(seqinfo[i])
                    \/ IsPhasediff(seqinfo[i]) \/ IsTnt(seqinfo[i])) =>
                  \A k \in DOMAIN r : seqinfo[i].series_id \notin Listed(r[k])

\* a phasediff field map that is also a TNT run, followed by a TNT run: the
\* TNT list holds both in input order, the phasediff list the first only
C18_Witness ==
    /\ info # <<>>
    /\ Len(seqinfo) = 2
    /\ info[1][func_task_tnt] =
           << <<"15", "-", "field_mapping", "-", "TNT">>, <<"9", "-", "TNT", "_run1">> >>
    /\ info[1][fmap_phase] = << <<"15", "-", "field_mapping", "-", "TNT">> >>
    /\ info[1][fmap_mag] = <<>>
    /\ info[1][anat] = <<>>

====
